---------------------------- MODULE Spec2Model ----------------------------
(***************************************************************************)
(* app-minio-api: an HTTP facade over an S3-compatible object store.       *)
(*                                                                         *)
(* The model follows one request at a time through the gin handler chain   *)
(* that cmd/server/main.go builds:                                         *)
(*                                                                         *)
(*   Recovery -> CorrelationIDMiddleware -> LoggerMiddleware -> CORS       *)
(*            -> addCorsHeaders -> [Authenticate] -> route handler         *)
(*            -> (LoggerMiddleware's code after c.Next())                  *)
(*                                                                         *)
(* A middleware reads the request header it needs when it runs, so the     *)
(* model draws each header (and the body) in the action that reads it and  *)
(* records it in req; a field not read yet holds Unread.  The object       *)
(* store, the auth service, uuid.New() and the clock are outside the       *)
(* repository: their answers are drawn from small sets in the action that  *)
(* calls them.                                                             *)
(***************************************************************************)
EXTENDS Integers, Sequences, FiniteSets, TLC

VARIABLES
    cfg,        \* configuration and handler structs built at startup
    minioInit,  \* whether the configured bucket exists, and how
                \* InitMinioClient ended
    bucket,     \* contents of the configured bucket in the object store
    pc,         \* position of the in-flight request in the handler chain
    req,        \* what has been read of the in-flight request
    ctx,        \* gin.Context: keys set with c.Set, the abort flag
    resp,       \* c.Writer: status, headers, body
    authCalls,  \* requests sent to the auth service for this request
    storeCalls, \* calls made to the object store for this request
    log,        \* records LoggerMiddleware emitted for this request
    drawn,      \* what the runtime supplied: uuid.New(), time.Now()
    bucket0,    \* history: the bucket when the request arrived
    uploaded,   \* history: per name, the last upload answered 200 that no
                \* later upload or delete of that name followed
    deleted,    \* history: names whose delete was answered 200 with no
                \* later upload of that name
    probe       \* history: status and payload of the first answer to the
                \* probe request

vars == <<cfg, minioInit, bucket, pc, req, ctx, resp, drawn, authCalls, storeCalls, log,
          bucket0, uploaded, deleted, probe>>

-----------------------------------------------------------------------------
(* Bounds of the model *)

\* how many different identifiers uuid.New() can return
NumUUIDs == 2
\* how many object names requests use (the first NumNames of AllNames)
NumNames == 2

-----------------------------------------------------------------------------
(* Values *)

Unread == "<unread>"
UnreadHeader == <<Unread>>
SP == " "

AllNames == <<"a.txt", "b", "c.png", "d.jpeg">>
Names == {AllNames[i] : i \in 1..(IF NumNames < Len(AllNames) THEN NumNames ELSE Len(AllNames))}

NoObject == [present |-> FALSE]
NoUpload == [some |-> FALSE, content |-> <<>>, contentType |-> ""]
StoreClock == "2026-11-06T00:00:00Z"

\* the multipart "file" parts requests carry: bytes and the part's
\* Content-Type header ("" when the part has none)
FileParts == { [content |-> <<1>>, contentType |-> ""],
               [content |-> <<2, 3>>, contentType |-> "text/csv"] }

UUIDs == {<<"uuid", i>> : i \in 1..NumUUIDs}
NoID == <<"", 0>>
\* X-Correlation-ID request header: absent/empty or a client-chosen value
CorrelationHeaders == {NoID, <<"cid", 1>>}

Origins == {"", "https://drive-two.junistudio.org", "https://evil.example"}

\* Authorization header values, as sequences of space-free words and
\* single spaces; <<>> is the absent (empty) header
AuthHeaders == { <<>>,
                 <<"Bearer", SP, "tok1">>,
                 <<"bearer", SP, "tok1">>,
                 <<"tok1">>,
                 <<"Basic", SP, "tok1">>,
                 <<"Bearer", SP>>,
                 <<"Bearer", SP, SP, "tok1">>,
                 <<"Bearer", SP, "tok1", SP, "x">> }

\* what client.Do returns: a transport error, or a response status
AuthAnswers == {"error", "200", "401", "403", "500"}

\* deployments: APP_ENV and AUTH_SERVICE_URL of the process
Deployments == { [AppEnv |-> "development", AuthServiceURL |-> "http://auth:8000/"],
                 [AppEnv |-> "dev",         AuthServiceURL |-> "http://auth:8000"],
                 [AppEnv |-> "production",  AuthServiceURL |-> "http://auth:8000"],
                 [AppEnv |-> "production",  AuthServiceURL |-> "http://au th:8000"] }

Routes == { [method |-> "POST",    handler |-> "UploadFile"],
            [method |-> "GET",     handler |-> "ListFiles"],
            [method |-> "GET",     handler |-> "GetFile"],
            [method |-> "DELETE",  handler |-> "DeleteFile"],
            [method |-> "POST",    handler |-> "GeneratePresignedURL"],
            [method |-> "POST",    handler |-> "R2ListFiles"],
            [method |-> "OPTIONS", handler |-> "optionsHandler"] }

NoBody == [type |-> "none"]
NoHeaders == [XCorrelationID |-> NoID,
              AccessControlAllowOrigin |-> "",
              AccessControlAllowMethods |-> "",
              AccessControlAllowHeaders |-> "",
              AccessControlAllowCredentials |-> "",
              ContentType |-> "",
              ContentLength |-> -1,
              ContentDisposition |-> <<"", "">>]

NoRequest == [method |-> "", handler |-> "", guarded |-> FALSE,
              XCorrelationID |-> <<Unread, 0>>, Origin |-> Unread,
              Authorization |-> UnreadHeader, body |-> [type |-> Unread]]
NoContext == [CorrelationID |-> NoID, aborted |-> FALSE, handlerRan |-> FALSE]
\* gin's writer reports 200 until a status is written
NoResponse == [status |-> 200, headers |-> NoHeaders, body |-> NoBody]
NoDrawn == [uuid |-> NoID, now |-> <<0, 0, 0>>]

-----------------------------------------------------------------------------
(* gin: c.Next(), c.Abort*() *)

\* The stage that runs after a middleware returns: an aborted chain skips
\* the remaining handlers, and control returns to LoggerMiddleware, the one
\* middleware with code after its c.Next().
AfterMiddleware(aborted, next) == IF aborted THEN "LoggerAfter" ELSE next

JSONHeaders(h) == [h EXCEPT !.ContentType = "application/json; charset=utf-8"]

\* c.AbortWithStatusJSON(status, body)
AbortWithStatusJSON(r, status, body) ==
    [r EXCEPT !.status = status, !.headers = JSONHeaders(@), !.body = body]

\* c.JSON(status, body)
WriteJSON(r, status, body) ==
    [r EXCEPT !.status = status, !.headers = JSONHeaders(@), !.body = body]

-----------------------------------------------------------------------------
(* utils.CorrelationIDMiddleware *)

\* a middleware that forwards the client's header and generates nothing
CorrelationIDForNoGenerate(header, uuid) == header

CorrelationIDFor(header, uuid) == IF header = NoID THEN uuid ELSE header

CorrelationIDMiddleware ==
    /\ pc = "CorrelationID"
    /\ \E header \in CorrelationHeaders :
       \E uuid \in (IF header = NoID THEN UUIDs ELSE {NoID}) :
          LET correlationID == CorrelationIDFor(header, uuid) IN
          /\ req' = [req EXCEPT !.XCorrelationID = header]
          /\ drawn' = [drawn EXCEPT !.uuid = uuid]
          /\ ctx' = [ctx EXCEPT !.CorrelationID = correlationID]
          /\ resp' = [resp EXCEPT !.headers.XCorrelationID = correlationID]
    /\ pc' = "LoggerBefore"
    /\ UNCHANGED <<cfg, minioInit, probe, bucket, authCalls, storeCalls, log, bucket0, uploaded, deleted>>

-----------------------------------------------------------------------------
(* utils.LoggerMiddleware *)

\* a severity that reports client errors as INFO
SeverityOfErrorOnly(status) == IF status >= 500 THEN "ERROR" ELSE "INFO"

SeverityOf(status) ==
    IF status >= 500 THEN "ERROR"
    ELSE IF status >= 400 THEN "WARNING"
    ELSE "INFO"

\* the code before c.Next(): the start time and the path are taken
LoggerBefore ==
    /\ pc = "LoggerBefore"
    /\ pc' = "CORS"
    /\ UNCHANGED <<cfg, minioInit, probe, bucket, req, ctx, resp, drawn, authCalls, storeCalls, log,
                   bucket0, uploaded, deleted>>

\* the code after c.Next(): one record, built from the writer's status
LoggerAfter ==
    /\ pc = "LoggerAfter"
    /\ log' = Append(log, [severity |-> SeverityOf(resp.status),
                           correlation_id |-> ctx.CorrelationID,
                           requestMethod |-> req.method,
                           status |-> resp.status])
    /\ pc' = "Done"
    /\ UNCHANGED <<cfg, minioInit, probe, bucket, req, ctx, resp, drawn, authCalls, storeCalls,
                   bucket0, uploaded, deleted>>

-----------------------------------------------------------------------------
(* The CORS middleware of cmd/server/main.go *)

IsDevelopment(currentEnv) == currentEnv = "development" \/ currentEnv = "dev"

allowedOrigins == {"https://drive-two.junistudio.org"}

\* a check that lets a request without Origin header through
OriginAllowedOrAbsent(origin) == origin \in allowedOrigins \/ origin = ""

OriginAllowed(origin) == origin \in allowedOrigins

DevCORSHeaders(h) ==
    [h EXCEPT !.AccessControlAllowOrigin = "*",
              !.AccessControlAllowMethods = "*",
              !.AccessControlAllowHeaders = "*",
              !.AccessControlAllowCredentials = "true"]

ProdCORSHeaders(h, origin) ==
    [h EXCEPT !.AccessControlAllowOrigin = origin,
              !.AccessControlAllowMethods = "GET, POST, PUT, DELETE, PATCH, OPTIONS",
              !.AccessControlAllowHeaders = "Origin, Content-Type, Content-Length, Accept-Encoding, X-CSRF-Token, Authorization, X-Requested-With, X-Request-Id, X-Correlation-Id",
              !.AccessControlAllowCredentials = "true"]

\* a middleware that answers a preflight before it sets the headers
CORSResultBarePreflight(r, currentEnv, method, origin) ==
    IF IsDevelopment(currentEnv) \/ OriginAllowed(origin) THEN
        IF method = "OPTIONS"
        THEN [resp |-> [r EXCEPT !.status = 204], aborted |-> TRUE]
        ELSE [resp |-> [r EXCEPT !.headers = IF IsDevelopment(currentEnv)
                                              THEN DevCORSHeaders(@)
                                              ELSE ProdCORSHeaders(@, origin)],
              aborted |-> FALSE]
    ELSE [resp |-> AbortWithStatusJSON(r, 403, [type |-> "H", error |-> "Origin not allowed"]),
          aborted |-> TRUE]

\* the writer and the abort flag the middleware leaves
CORSResult(r, currentEnv, method, origin) ==
    IF IsDevelopment(currentEnv) THEN
        LET r1 == [r EXCEPT !.headers = DevCORSHeaders(@)] IN
        IF method = "OPTIONS"
        THEN [resp |-> [r1 EXCEPT !.status = 204], aborted |-> TRUE]
        ELSE [resp |-> r1, aborted |-> FALSE]
    ELSE IF OriginAllowed(origin) THEN
        LET r1 == [r EXCEPT !.headers = ProdCORSHeaders(@, origin)] IN
        IF method = "OPTIONS"
        THEN [resp |-> [r1 EXCEPT !.status = 204], aborted |-> TRUE]
        ELSE [resp |-> r1, aborted |-> FALSE]
    ELSE [resp |-> AbortWithStatusJSON(r, 403, [type |-> "H", error |-> "Origin not allowed"]),
          aborted |-> TRUE]

\* the Origin header is read in production only
CORSMiddleware ==
    /\ pc = "CORS"
    /\ \E origin \in (IF IsDevelopment(cfg.AppEnv) THEN {Unread} ELSE Origins) :
          LET res == CORSResult(resp, cfg.AppEnv, req.method, origin) IN
          /\ req' = [req EXCEPT !.Origin = origin]
          /\ resp' = res.resp
          /\ ctx' = [ctx EXCEPT !.aborted = res.aborted]
          /\ pc' = AfterMiddleware(res.aborted, "addCorsHeaders")
    /\ UNCHANGED <<cfg, minioInit, probe, bucket, drawn, authCalls, storeCalls, log, bucket0, uploaded, deleted>>

-----------------------------------------------------------------------------
(* routes.addCorsHeaders, which SetupRoutes adds to the chain of its routes *)

RouteCORSHeaders(h) ==
    [h EXCEPT !.AccessControlAllowOrigin = "*",
              !.AccessControlAllowMethods = "POST, GET, OPTIONS, PUT, DELETE",
              !.AccessControlAllowHeaders = "Content-Type, Content-Length, Accept-Encoding, X-CSRF-Token, Authorization, accept, origin",
              !.AccessControlAllowCredentials = "true"]

\* the writer and the abort flag the middleware leaves
AddCorsHeadersResult(r, method) ==
    LET r1 == [r EXCEPT !.headers = RouteCORSHeaders(@)] IN
    IF method = "OPTIONS"
    THEN [resp |-> [r1 EXCEPT !.status = 204], aborted |-> TRUE]
    ELSE [resp |-> r1, aborted |-> FALSE]

addCorsHeaders ==
    /\ pc = "addCorsHeaders"
    /\ LET res == AddCorsHeadersResult(resp, req.method) IN
          /\ resp' = res.resp
          /\ ctx' = [ctx EXCEPT !.aborted = res.aborted]
          /\ pc' = AfterMiddleware(res.aborted,
                                   IF req.guarded THEN "Authenticate" ELSE "Handler")
    /\ UNCHANGED <<cfg, minioInit, probe, bucket, req, drawn, authCalls, storeCalls, log, bucket0,
                   uploaded, deleted>>


-----------------------------------------------------------------------------
(* middleware.AuthMiddleware.Authenticate *)

\* strings.Split(header, " ") on a non-empty header: the words between the
\* spaces, "" where two spaces meet or a space begins or ends the header
RECURSIVE SplitFrom(_, _)
SplitFrom(header, cur) ==
    IF header = <<>> THEN <<cur>>
    ELSE IF Head(header) = SP THEN <<cur>> \o SplitFrom(Tail(header), "")
    ELSE SplitFrom(Tail(header), Head(header))

Split(header) == SplitFrom(header, "")

ToLower(w) ==
    CASE w \in {"Bearer", "bearer", "BEARER"} -> "bearer"
      [] w \in {"Basic", "basic"} -> "basic"
      [] OTHER -> w

\* strings.EqualFold
EqualFold(a, b) == ToLower(a) = ToLower(b)

NoToken == [ok |-> FALSE, token |-> ""]

\* an extraction that takes the second of two parts whatever the scheme
ExtractTokenAnyScheme(parts) ==
    IF Len(parts) = 2 THEN [ok |-> TRUE, token |-> parts[2]]
    ELSE IF Len(parts) = 1 THEN [ok |-> TRUE, token |-> parts[1]]
    ELSE NoToken

\* the token the middleware takes from the header's parts
ExtractToken(parts) ==
    IF Len(parts) = 2 /\ EqualFold(parts[1], "Bearer") THEN [ok |-> TRUE, token |-> parts[2]]
    ELSE IF Len(parts) = 1 THEN [ok |-> TRUE, token |-> parts[1]]
    ELSE NoToken

\* strings.TrimSuffix(authBaseURL, "/") of NewAuthMiddleware
TrimSlash(url) == IF url = "http://auth:8000/" THEN "http://auth:8000" ELSE url

\* http.NewRequest fails on a URL that url.Parse rejects
URLParses(url) == url # "http://au th:8000"

\* the request Authenticate builds for client.Do
VerifyRequest(authBaseURL, token) ==
    [method |-> "POST",
     url |-> <<authBaseURL, "/api/v1/auth/verify">>,
     contentType |-> "application/json",
     body |-> <<"{\"token\":\"", token, "\"}">>]

AuthError(message) == [type |-> "H", error |-> TRUE, message |-> message]

\* a check that refuses on 401 only
TokenVerifiedUnless401(answer) == answer # "401"

\* whether the response of the auth service lets the request through
TokenVerified(answer) == answer = "200"

\* a middleware that lets the request through when client.Do fails
VerifyOutcomeFailOpen(answer) ==
    IF answer # "error" /\ answer # "200"
    THEN [pass |-> FALSE, status |-> 401, message |-> "Invalid or expired token"]
    ELSE [pass |-> TRUE, status |-> 200, message |-> ""]

\* what Authenticate does with the result of client.Do
VerifyOutcome(answer) ==
    IF answer = "error"
    THEN [pass |-> FALSE, status |-> 500, message |-> "Authentication service unavailable"]
    ELSE IF ~TokenVerified(answer)
    THEN [pass |-> FALSE, status |-> 401, message |-> "Invalid or expired token"]
    ELSE [pass |-> TRUE, status |-> 200, message |-> ""]

\* Whether Authenticate reaches client.Do for this header
SendsVerify(header, authBaseURL) ==
    /\ header # <<>>
    /\ ExtractToken(Split(header)).ok
    /\ ExtractToken(Split(header)).token # ""
    /\ URLParses(authBaseURL)

\* The whole middleware: the writer it leaves, whether it aborted, and the
\* calls it made.  answer is what client.Do returned, when it was reached.
AuthenticateResult(r, header, authBaseURL, answer) ==
    IF header = <<>> THEN
        [resp |-> AbortWithStatusJSON(r, 401, AuthError("Authorization header is required")),
         aborted |-> TRUE, calls |-> <<>>]
    ELSE LET t == ExtractToken(Split(header)) IN
    IF ~t.ok THEN
        [resp |-> AbortWithStatusJSON(r, 401,
                    AuthError("Invalid authorization header format. Expected 'Bearer <token>' or just '<token>'")),
         aborted |-> TRUE, calls |-> <<>>]
    ELSE IF t.token = "" THEN
        [resp |-> AbortWithStatusJSON(r, 401, AuthError("Missing token")),
         aborted |-> TRUE, calls |-> <<>>]
    ELSE IF ~URLParses(authBaseURL) THEN
        [resp |-> AbortWithStatusJSON(r, 500, AuthError("Internal server error")),
         aborted |-> TRUE, calls |-> <<>>]
    ELSE LET call == [request |-> VerifyRequest(authBaseURL, t.token), answer |-> answer]
             v == VerifyOutcome(answer) IN
    IF ~v.pass THEN
        [resp |-> AbortWithStatusJSON(r, v.status, AuthError(v.message)),
         aborted |-> TRUE, calls |-> <<call>>]
    ELSE [resp |-> r, aborted |-> FALSE, calls |-> <<call>>]

Authenticate ==
    /\ pc = "Authenticate"
    /\ \E header \in AuthHeaders :
       \E answer \in (IF SendsVerify(header, cfg.authBaseURL) THEN AuthAnswers ELSE {"none"}) :
          LET res == AuthenticateResult(resp, header, cfg.authBaseURL, answer) IN
          /\ req' = [req EXCEPT !.Authorization = header]
          /\ resp' = res.resp
          /\ ctx' = [ctx EXCEPT !.aborted = res.aborted]
          /\ authCalls' = authCalls \o res.calls
          /\ pc' = AfterMiddleware(res.aborted, "Handler")
    /\ UNCHANGED <<cfg, minioInit, probe, bucket, drawn, storeCalls, log, bucket0, uploaded, deleted>>

-----------------------------------------------------------------------------
(* The object store, as the handlers use it through minio-go *)

Object(content, contentType) ==
    [present |-> TRUE, content |-> content, contentType |-> contentType,
     size |-> Len(content), lastModified |-> StoreClock]

Objects == {Object(p.content, ct) : p \in FileParts,
            ct \in {"text/csv", "text/plain", "application/octet-stream"}}

\* PutObject: a successful put replaces the object under the key
PutObject(b, key, content, contentType, outcome) ==
    IF outcome = "ok" THEN [b EXCEPT ![key] = Object(content, contentType)] ELSE b

\* RemoveObject: a successful remove leaves no object under the key
\* (removing an absent key succeeds)
RemoveObject(b, key, outcome) ==
    IF outcome = "ok" THEN [b EXCEPT ![key] = NoObject] ELSE b

\* Object.Stat: the object's info, NoSuchKey for an absent key, or another
\* error when the store cannot be reached
StatObject(b, key, outcome) ==
    IF outcome # "ok" THEN [err |-> "Other", info |-> NoObject]
    ELSE IF ~b[key].present THEN [err |-> "NoSuchKey", info |-> NoObject]
    ELSE [err |-> "", info |-> b[key]]

RECURSIVE KeysFrom(_, _)
KeysFrom(b, i) ==
    IF i > Len(AllNames) THEN <<>>
    ELSE (IF AllNames[i] \in DOMAIN b /\ b[AllNames[i]].present
          THEN <<AllNames[i]>> ELSE <<>>) \o KeysFrom(b, i + 1)

\* the keys of the bucket in listing order
Keys(b) == KeysFrom(b, 1)

ObjectInfo(b, key) ==
    [Err |-> FALSE, Key |-> key, Size |-> b[key].size,
     LastModified |-> b[key].lastModified, ContentType |-> b[key].contentType]

ErrItem == [Err |-> TRUE, Key |-> "", Size |-> 0, LastModified |-> "", ContentType |-> ""]

\* ListObjects(Recursive: true): the channel's items.  errAfter = -1: the
\* whole listing; errAfter = k: k objects, then an item carrying an error.
ListObjects(b, errAfter) ==
    LET all == [i \in 1..Len(Keys(b)) |-> ObjectInfo(b, Keys(b)[i])] IN
    IF errAfter < 0 THEN all ELSE SubSeq(all, 1, errAfter) \o <<ErrItem>>

-----------------------------------------------------------------------------
(* utils.SendJSONWithCorrelationID, utils.SendError *)

Null == [null |-> TRUE, items |-> <<>>]

SendJSONWithCorrelationID(r, c, status, data) ==
    WriteJSON(r, status, [type |-> "StandardResponse",
                          correlation_id |-> c.CorrelationID,
                          data |-> data, error |-> ""])

SendErrorWithCorrelationID(r, c, status, errMsg) ==
    WriteJSON(r, status, [type |-> "StandardResponse",
                          correlation_id |-> c.CorrelationID,
                          data |-> Null, error |-> errMsg])

SendError(r, c, status, message) == SendErrorWithCorrelationID(r, c, status, message)

-----------------------------------------------------------------------------
(* handlers.MinioHandler.UploadFile *)

\* filepath.Ext
Ext(name) ==
    CASE name = "a.txt" -> ".txt"
      [] name = "c.png" -> ".png"
      [] name = "d.jpeg" -> ".jpeg"
      [] OTHER -> ""

\* the content type UploadFile stores
UploadContentType(partContentType, objectName) ==
    IF partContentType # "" THEN partContentType
    ELSE CASE Ext(objectName) \in {".jpg", ".jpeg"} -> "image/jpeg"
           [] Ext(objectName) = ".png" -> "image/png"
           [] Ext(objectName) = ".pdf" -> "application/pdf"
           [] Ext(objectName) = ".txt" -> "text/plain"
           [] Ext(objectName) = ".mp4" -> "video/mp4"
           [] OTHER -> "application/octet-stream"

NoFilePart == [type |-> "multipart", hasFile |-> FALSE, filename |-> "",
               content |-> <<>>, contentType |-> ""]

UploadBodies ==
    {NoFilePart} \cup
    {[type |-> "multipart", hasFile |-> TRUE, filename |-> n,
      content |-> p.content, contentType |-> p.contentType] : n \in Names, p \in FileParts}

\* the PutObject call UploadFile makes for a body, none without a file part
UploadCalls(body, bucketName, outcome) ==
    IF ~body.hasFile THEN <<>>
    ELSE <<[op |-> "PutObject", bucket |-> bucketName, key |-> body.filename,
            outcome |-> outcome]>>

\* a handler that ignores the error PutObject returned
UploadResponseIgnoresPutError(r, c, body, bucketName, outcome) ==
    IF ~body.hasFile THEN SendError(r, c, 400, "Failed to get file")
    ELSE SendJSONWithCorrelationID(r, c, 200,
            [null |-> FALSE,
             items |-> <<[message |-> "File uploaded successfully",
                          filename |-> body.filename,
                          size |-> Len(body.content),
                          bucketName |-> bucketName]>>])

\* the writer UploadFile leaves
UploadResponse(r, c, body, bucketName, outcome) ==
    IF ~body.hasFile THEN SendError(r, c, 400, "Failed to get file")
    ELSE IF outcome # "ok" THEN SendError(r, c, 500, "Failed to upload file")
    ELSE SendJSONWithCorrelationID(r, c, 200,
            [null |-> FALSE,
             items |-> <<[message |-> "File uploaded successfully",
                          filename |-> body.filename,
                          size |-> Len(body.content),
                          bucketName |-> bucketName]>>])

UploadFile ==
    /\ pc = "Handler"
    /\ req.handler = "UploadFile"
    /\ \E body \in UploadBodies :
       \E outcome \in (IF body.hasFile THEN {"ok", "error"} ELSE {"none"}) :
          LET calls == UploadCalls(body, cfg.MinioBucketName, outcome)
              ok == calls # <<>> /\ outcome = "ok" IN
          /\ req' = [req EXCEPT !.body = body]
          /\ storeCalls' = storeCalls \o calls
          /\ bucket' = IF calls = <<>> THEN bucket
                       ELSE PutObject(bucket, body.filename, body.content,
                                      UploadContentType(body.contentType, body.filename),
                                      outcome)
          /\ resp' = UploadResponse(resp, ctx, body, cfg.MinioBucketName, outcome)
          /\ uploaded' = IF calls = <<>> THEN uploaded
                         ELSE [uploaded EXCEPT ![body.filename] =
                                  IF ok THEN [some |-> TRUE, content |-> body.content,
                                              contentType |-> UploadContentType(body.contentType, body.filename)]
                                  ELSE NoUpload]
          /\ deleted' = IF calls = <<>> THEN deleted ELSE deleted \ {body.filename}
    /\ ctx' = [ctx EXCEPT !.handlerRan = TRUE]
    /\ pc' = "LoggerAfter"
    /\ UNCHANGED <<cfg, minioInit, probe, drawn, authCalls, log, bucket0>>

-----------------------------------------------------------------------------
(* handlers.MinioHandler.ListFiles *)

\* the loop over the channel: the entries collected, and whether an item
\* carried an error (the loop returns there)
RECURSIVE CollectObjects(_, _)
CollectObjects(ch, objects) ==
    IF ch = <<>> THEN [failed |-> FALSE, objects |-> objects]
    ELSE IF Head(ch).Err THEN [failed |-> TRUE, objects |-> objects]
    ELSE CollectObjects(Tail(ch),
                        Append(objects, [name |-> Head(ch).Key,
                                         size |-> Head(ch).Size,
                                         lastModified |-> Head(ch).LastModified,
                                         contentType |-> Head(ch).ContentType]))

\* a nil slice is encoded as null
SliceData(objects) == [null |-> objects = <<>>, items |-> objects]

\* a handler that answers with what it collected before the error
ListFilesResponsePartial(r, c, ch) ==
    SendJSONWithCorrelationID(r, c, 200, SliceData(CollectObjects(ch, <<>>).objects))

ListFilesResponse(r, c, ch) ==
    LET res == CollectObjects(ch, <<>>) IN
    IF res.failed THEN SendError(r, c, 500, "Failed to list files")
    ELSE SendJSONWithCorrelationID(r, c, 200, SliceData(res.objects))

ListFiles ==
    /\ pc = "Handler"
    /\ req.handler = "ListFiles"
    /\ \E errAfter \in -1..Len(Keys(bucket)) :
          /\ storeCalls' = Append(storeCalls,
                                  [op |-> "ListObjects", bucket |-> cfg.MinioBucketName,
                                   key |-> "", outcome |-> IF errAfter < 0 THEN "ok" ELSE "error",
                                   recursive |-> TRUE])
          /\ resp' = ListFilesResponse(resp, ctx, ListObjects(bucket, errAfter))
    /\ ctx' = [ctx EXCEPT !.handlerRan = TRUE]
    /\ pc' = "LoggerAfter"
    /\ UNCHANGED <<cfg, minioInit, probe, bucket, req, drawn, authCalls, log, bucket0, uploaded, deleted>>

-----------------------------------------------------------------------------
(* handlers.MinioHandler.GetFile *)

FilenameBody(filename) == [type |-> "param", hasFile |-> FALSE, filename |-> filename,
                           content |-> <<>>, contentType |-> ""]

\* headers without the stored content type
GetFileHeadersOctetStream(h, filename, stat) ==
    [h EXCEPT !.ContentDisposition = <<"attachment; filename=", filename>>,
              !.ContentType = "application/octet-stream",
              !.ContentLength = stat.size]

\* the headers GetFile sets before it streams
GetFileHeaders(h, filename, stat) ==
    [h EXCEPT !.ContentDisposition = <<"attachment; filename=", filename>>,
              !.ContentType = stat.contentType,
              !.ContentLength = stat.size]

\* a handler that does not tell NoSuchKey from other errors
StatErrorStatusAlways500(err) == 500

\* the status GetFile answers a failed Object.Stat with
StatErrorStatus(err) == IF err = "NoSuchKey" THEN 404 ELSE 500

StatErrorMessage(err) == IF err = "NoSuchKey" THEN "File not found" ELSE "Failed to get file info"

\* the writer GetFile leaves.  get: the outcome of GetObject; stat: the
\* result of Object.Stat; copied: how many bytes io.Copy wrote before it
\* returned
GetFileResponse(r, c, filename, get, stat, copied) ==
    IF filename = "" THEN WriteJSON(r, 400, [type |-> "H", error |-> "Filename is required"])
    ELSE IF get # "ok" THEN SendError(r, c, 500, "Failed to get file")
    ELSE IF stat.err # ""
    THEN SendError(r, c, StatErrorStatus(stat.err), StatErrorMessage(stat.err))
    ELSE [r EXCEPT !.headers = GetFileHeaders(@, filename, stat.info),
                   !.body = [type |-> "stream",
                             bytes |-> SubSeq(stat.info.content, 1, copied)]]

GetFile ==
    /\ pc = "Handler"
    /\ req.handler = "GetFile"
    /\ \E filename \in Names :
       \E get \in {"ok", "error"} :
       \E statOutcome \in (IF get = "ok" THEN {"ok", "error"} ELSE {"none"}) :
          LET stat == StatObject(bucket, filename, statOutcome)
              streams == get = "ok" /\ stat.err = "" IN
          \E copied \in (IF streams THEN 0..stat.info.size ELSE {0}) :
             /\ req' = [req EXCEPT !.body = FilenameBody(filename)]
             /\ storeCalls' = storeCalls \o
                    <<[op |-> "GetObject", bucket |-> cfg.MinioBucketName,
                       key |-> filename, outcome |-> get]>> \o
                    (IF get = "ok"
                     THEN <<[op |-> "Stat", bucket |-> cfg.MinioBucketName, key |-> filename,
                             outcome |-> IF stat.err = "" THEN "ok" ELSE stat.err]>>
                     ELSE <<>>) \o
                    (IF streams
                     THEN <<[op |-> "Read", bucket |-> cfg.MinioBucketName, key |-> filename,
                             outcome |-> IF copied = stat.info.size THEN "ok" ELSE "error",
                             copied |-> copied]>>
                     ELSE <<>>)
             /\ resp' = GetFileResponse(resp, ctx, filename, get, stat, copied)
    /\ ctx' = [ctx EXCEPT !.handlerRan = TRUE]
    /\ pc' = "LoggerAfter"
    /\ UNCHANGED <<cfg, minioInit, probe, bucket, drawn, authCalls, log, bucket0, uploaded, deleted>>

-----------------------------------------------------------------------------
(* handlers.MinioHandler.DeleteFile *)

DeleteFileResponse(r, c, filename, outcome) ==
    IF filename = "" THEN WriteJSON(r, 400, [type |-> "H", error |-> "Filename is required"])
    ELSE IF outcome # "ok" THEN SendError(r, c, 500, "Failed to delete file")
    ELSE SendJSONWithCorrelationID(r, c, 200,
            [null |-> FALSE,
             items |-> <<[message |-> "File deleted successfully", filename |-> filename]>>])

DeleteFile ==
    /\ pc = "Handler"
    /\ req.handler = "DeleteFile"
    /\ \E filename \in Names :
       \E outcome \in {"ok", "error"} :
          /\ req' = [req EXCEPT !.body = FilenameBody(filename)]
          /\ storeCalls' = Append(storeCalls,
                                  [op |-> "RemoveObject", bucket |-> cfg.MinioBucketName,
                                   key |-> filename, outcome |-> outcome])
          /\ bucket' = RemoveObject(bucket, filename, outcome)
          /\ resp' = DeleteFileResponse(resp, ctx, filename, outcome)
          /\ uploaded' = [uploaded EXCEPT ![filename] = NoUpload]
          /\ deleted' = IF outcome = "ok" THEN deleted \cup {filename} ELSE deleted
    /\ ctx' = [ctx EXCEPT !.handlerRan = TRUE]
    /\ pc' = "LoggerAfter"
    /\ UNCHANGED <<cfg, minioInit, probe, drawn, authCalls, log, bucket0>>

-----------------------------------------------------------------------------
(* int64 arithmetic of time.Duration and time.Time *)

\* time.Second, in nanoseconds
Second == 1000000000
Int32Max == 2147483647
Int32Min == -Int32Max - 1

\* An int64 is written in base 10^9 as <<h2, h1, h0>>, standing for
\* h2 * 10^18 + h1 * 10^9 + h0 with h1 and h0 in 0 .. 10^9 - 1; h2 carries
\* the sign.
Int64MaxL == <<9, 223372036, 854775807>>
Int64MinL == <<-10, 776627963, 145224192>>

LexLE(x, y) ==
    \/ x[1] < y[1]
    \/ x[1] = y[1] /\ x[2] < y[2]
    \/ x[1] = y[1] /\ x[2] = y[2] /\ x[3] <= y[3]

InInt64(x) == LexLE(Int64MinL, x) /\ LexLE(x, Int64MaxL)

\* an int32 widened to int64
FromInt32(n) == << (n \div Second) \div Second, (n \div Second) % Second, n % Second >>

Overflowed == [overflow |-> TRUE, value |-> <<0, 0, 0>>]
Exact(x) == IF InInt64(x) THEN [overflow |-> FALSE, value |-> x] ELSE Overflowed

\* x * time.Second in int64
MulSecond(x) ==
    IF x[1] \notin {-1, 0} THEN Overflowed
    ELSE Exact(<<x[1] * Second + x[2], x[3], 0>>)

\* x + y in int64
AddL(x, y) ==
    LET s0 == x[3] + y[3]
        s1 == x[2] + y[2] + (s0 \div Second)
        s2 == x[1] + y[1] + (s1 \div Second)
    IN Exact(<<s2, s1 % Second, s0 % Second>>)

\* d / time.Second for a d that is a whole number of seconds
DivSecond(d) == <<d[1] \div Second, d[1] % Second, d[2]>>

\* time.Duration(expiresIn) * time.Second
DurationSeconds(expiresIn) == MulSecond(FromInt32(expiresIn))

-----------------------------------------------------------------------------
(* handlers.R2Handler.GeneratePresignedURL *)

\* time.Now(), in Unix seconds
Nows == { <<0, 1, 793923200>>, <<0, 2, 208988800>> }
NoTime == <<0, 0, 0>>

ExpiresIns == {Int32Min, 0, 1, Int32Max}

NotJSON == [type |-> "json", valid |-> FALSE, bucket_name |-> "", object_key |-> "",
            expires_in |-> 0]

\* request bodies; expires_in is an int32 (a number outside int32 fails to
\* bind, like a body that is not JSON)
PresignBodies ==
    {NotJSON} \cup
    {[type |-> "json", valid |-> TRUE, bucket_name |-> "", object_key |-> "k1", expires_in |-> 0],
     [type |-> "json", valid |-> TRUE, bucket_name |-> "media", object_key |-> "", expires_in |-> 0]} \cup
    {[type |-> "json", valid |-> TRUE, bucket_name |-> "media", object_key |-> "k1",
      expires_in |-> e] : e \in ExpiresIns}

\* a binding that does not enforce the required fields
BindsPresignAnyJSON(body) == body.valid

\* c.ShouldBindJSON(&req): the body parses and the required fields are set
BindsPresign(body) == body.valid /\ body.bucket_name # "" /\ body.object_key # ""

DefaultExpiry == 3600

\* req.ExpiresIn after "Set default expiry if not provided"
\* a default applied to a missing (zero) expires_in only
EffectiveExpiresInZeroOnly(expiresIn) == IF expiresIn = 0 THEN DefaultExpiry ELSE expiresIn

EffectiveExpiresIn(expiresIn) == IF expiresIn <= 0 THEN DefaultExpiry ELSE expiresIn

\* the url PresignPutObject signs
PresignPutObject(bucketName, objectKey, lifetime) ==
    [method |-> "PUT", bucket |-> bucketName, key |-> objectKey,
     contentType |-> "application/octet-stream",
     overflow |-> lifetime.overflow,
     XAmzExpires |-> DivSecond(lifetime.value)]

NoURL == [method |-> "", bucket |-> "", key |-> "", contentType |-> "",
          overflow |-> FALSE, XAmzExpires |-> NoTime]

\* time.Now().Add(time.Duration(req.ExpiresIn) * time.Second).Unix()
ExpiresAt(now, expiresIn) ==
    LET d == DurationSeconds(expiresIn) IN
    IF d.overflow THEN Overflowed ELSE AddL(now, DivSecond(d.value))

PresignCalls(body, outcome) ==
    IF ~BindsPresign(body) THEN <<>>
    ELSE <<[op |-> "PresignPutObject", bucket |-> body.bucket_name, key |-> body.object_key,
            outcome |-> outcome]>>

\* the writer GeneratePresignedURL leaves; <err> stands for err.Error()
PresignResponse(r, body, outcome, now) ==
    IF ~BindsPresign(body)
    THEN WriteJSON(r, 400, [type |-> "H", error |-> TRUE, message |-> "Invalid request body: <err>"])
    ELSE IF outcome # "ok"
    THEN WriteJSON(r, 500, [type |-> "H", error |-> TRUE,
                            message |-> "Failed to generate presigned URL: <err>"])
    ELSE LET E == EffectiveExpiresIn(body.expires_in) IN
         WriteJSON([r EXCEPT !.headers.AccessControlAllowOrigin = "*",
                             !.headers.AccessControlAllowMethods = "POST, OPTIONS, GET, PUT, DELETE",
                             !.headers.AccessControlAllowHeaders = "Content-Type, Authorization"],
                   200,
                   [type |-> "PresignedURLResponse",
                    url |-> PresignPutObject(body.bucket_name, body.object_key,
                                             DurationSeconds(E)),
                    method |-> "PUT",
                    expires_at |-> ExpiresAt(now, E)])

GeneratePresignedURL ==
    /\ pc = "Handler"
    /\ req.handler = "GeneratePresignedURL"
    /\ \E body \in PresignBodies :
       \E outcome \in (IF BindsPresign(body) THEN {"ok", "error"} ELSE {"none"}) :
       \E now \in (IF outcome = "ok" THEN Nows ELSE {NoTime}) :
          /\ req' = [req EXCEPT !.body = body]
          /\ drawn' = [drawn EXCEPT !.now = now]
          /\ storeCalls' = storeCalls \o PresignCalls(body, outcome)
          /\ resp' = PresignResponse(resp, body, outcome, now)
    /\ ctx' = [ctx EXCEPT !.handlerRan = TRUE]
    /\ pc' = "LoggerAfter"
    /\ UNCHANGED <<cfg, minioInit, probe, bucket, authCalls, log, bucket0, uploaded, deleted>>

-----------------------------------------------------------------------------
(* handlers.R2Handler.ListFiles *)

\* the most keys one ListObjectsV2 response carries when the input sets no
\* MaxKeys: the page size of the S3 API
MaxKeys == 1000

\* How many objects the listed R2 bucket holds when the request arrives.
\* Clients write to R2 through presigned URLs, not through this service, so
\* the number is drawn per request.  The objects are numbered in key order,
\* and a range of them is written [first, last] (empty when last < first).
R2Sizes == {0, 1, MaxKeys, MaxKeys + 1}

KeyRange(first, last) == [first |-> first, last |-> last]
NoKeys == KeyRange(1, 0)

Min(a, b) == IF a <= b THEN a ELSE b

\* request bodies of ListFiles
R2ListBodies ==
    { [type |-> "json", valid |-> FALSE, bucket_name |-> ""],
      [type |-> "json", valid |-> TRUE,  bucket_name |-> ""],
      [type |-> "json", valid |-> TRUE,  bucket_name |-> "media"] }

\* c.ShouldBindJSON(&req) for ListFilesRequest
BindsListFiles(body) == body.valid /\ body.bucket_name # ""

\* client.ListObjectsV2 with only Bucket set: the first page of the listing
ListObjectsV2(held, outcome) ==
    IF outcome # "ok"
    THEN [err |-> TRUE, Contents |-> NoKeys, IsTruncated |-> FALSE]
    ELSE [err |-> FALSE, Contents |-> KeyRange(1, Min(held, MaxKeys)),
          IsTruncated |-> held > MaxKeys]

\* the calls ListFiles makes: one ListObjectsV2, then one HeadObject per
\* listed object (headFailed: the objects whose HeadObject failed)
R2ListCalls(body, held, outcome, headFailed) ==
    IF ~BindsListFiles(body) THEN <<>>
    ELSE LET page == ListObjectsV2(held, outcome) IN
         <<[op |-> "ListObjectsV2", bucket |-> body.bucket_name, key |-> "",
            outcome |-> outcome, held |-> held]>> \o
         (IF page.err \/ page.Contents.last < page.Contents.first THEN <<>>
          ELSE <<[op |-> "HeadObject", bucket |-> body.bucket_name, key |-> "",
                  outcome |-> IF headFailed = {} THEN "ok" ELSE "error",
                  keys |-> page.Contents, failed |-> headFailed]>>)

\* the writer ListFiles leaves; <err> stands for err.Error().  files: one
\* FileInfo per object of the page, with an empty content type for the
\* objects whose HeadObject failed
R2ListFilesResponse(r, body, page, headFailed) ==
    IF ~BindsListFiles(body)
    THEN WriteJSON(r, 400, [type |-> "H", error |-> TRUE, message |-> "Invalid request body: <err>"])
    ELSE IF page.err
    THEN WriteJSON(r, 500, [type |-> "H", error |-> TRUE,
                            message |-> "Failed to list objects: <err>"])
    ELSE WriteJSON([r EXCEPT !.headers.AccessControlAllowOrigin = "*",
                             !.headers.AccessControlAllowMethods = "POST, OPTIONS, GET, PUT, DELETE",
                             !.headers.AccessControlAllowHeaders = "Content-Type, Authorization"],
                   200,
                   [type |-> "ListFilesResponse",
                    files |-> [first |-> page.Contents.first, last |-> page.Contents.last,
                               noContentType |-> headFailed]])

R2ListFiles ==
    /\ pc = "Handler"
    /\ req.handler = "R2ListFiles"
    /\ \E body \in R2ListBodies :
       \E outcome \in (IF BindsListFiles(body) THEN {"ok", "error"} ELSE {"none"}) :
       \E held \in (IF outcome = "none" THEN {0} ELSE R2Sizes) :
          LET page == ListObjectsV2(held, outcome) IN
          \E headFailed \in (IF page.Contents.last >= 1 THEN {{}, {1}} ELSE {{}}) :
             /\ req' = [req EXCEPT !.body = body]
             /\ storeCalls' = storeCalls \o R2ListCalls(body, held, outcome, headFailed)
             /\ resp' = R2ListFilesResponse(resp, body, page, headFailed)
    /\ ctx' = [ctx EXCEPT !.handlerRan = TRUE]
    /\ pc' = "LoggerAfter"
    /\ UNCHANGED <<cfg, minioInit, probe, bucket, drawn, authCalls, log, bucket0, uploaded, deleted>>

-----------------------------------------------------------------------------
(* The router *)

\* a request arrives and gin resets the context and the writer
Receive ==
    /\ pc = "Idle"
    /\ \E route \in Routes :
       \E guarded \in (IF route.method = "OPTIONS" THEN {FALSE} ELSE BOOLEAN) :
          req' = [NoRequest EXCEPT !.method = route.method, !.handler = route.handler,
                                   !.guarded = guarded]
    /\ bucket0' = bucket
    /\ pc' = "CorrelationID"
    /\ UNCHANGED <<cfg, minioInit, probe, bucket, ctx, resp, drawn, authCalls, storeCalls, log, uploaded, deleted>>

NoProbe == [status |-> 0, body |-> NoBody]

\* The probe request: a guarded upload that carries no file part, with
\* 'Authorization: Bearer tok1' and a client-chosen X-Correlation-ID, sent
\* in the 'development' deployment while the bucket is empty.  (The body
\* is unread when the chain stopped before the handler.)
IsProbe ==
    /\ cfg.AppEnv = "development"
    /\ req.method = "POST" /\ req.handler = "UploadFile" /\ req.guarded
    /\ req.XCorrelationID = <<"cid", 1>>
    /\ req.Origin = Unread
    /\ req.Authorization = <<"Bearer", SP, "tok1">>
    /\ req.body \in {[type |-> Unread], NoFilePart}
    /\ bucket0 = [n \in Names |-> NoObject]

\* a release that hands the next request the writer of this one
FinishKeepsWriter ==
    /\ pc = "Done"
    /\ pc' = "Idle"
    /\ req' = NoRequest
    /\ ctx' = NoContext
    /\ drawn' = NoDrawn
    /\ authCalls' = <<>>
    /\ storeCalls' = <<>>
    /\ log' = <<>>
    /\ bucket0' = bucket
    /\ probe' = IF probe = NoProbe /\ IsProbe THEN [status |-> resp.status, body |-> resp.body]
                 ELSE probe
    /\ UNCHANGED <<cfg, minioInit, resp, bucket, uploaded, deleted>>

\* the response is sent and the context is released
Finish ==
    /\ pc = "Done"
    /\ pc' = "Idle"
    /\ req' = NoRequest
    /\ ctx' = NoContext
    /\ resp' = NoResponse
    /\ drawn' = NoDrawn
    /\ authCalls' = <<>>
    /\ storeCalls' = <<>>
    /\ log' = <<>>
    /\ bucket0' = bucket
    /\ probe' = IF probe = NoProbe /\ IsProbe THEN [status |-> resp.status, body |-> resp.body]
                 ELSE probe
    /\ UNCHANGED <<cfg, minioInit, bucket, uploaded, deleted>>

\* main: the handler structs hold the configuration read at startup
Startup(deployment) ==
    [AppEnv |-> deployment.AppEnv,
     MinioBucketName |-> "my-bucket",
     authBaseURL |-> TrimSlash(deployment.AuthServiceURL)]

\* an initialisation that returns the client although MakeBucket failed
InitMinioClientResultIgnoresMake(exists, new, check, make) ==
    IF new # "ok" THEN [err |-> "failed to create MinIO client", bucketExists |-> exists]
    ELSE IF check # "ok" THEN [err |-> "failed to check if bucket exists", bucketExists |-> exists]
    ELSE [err |-> "", bucketExists |-> exists \/ make = "ok"]

\* config.InitMinioClient: the error it returns ("" with a client) and
\* whether the bucket exists when it returns.  new, check, make: the
\* outcomes of minio.New, BucketExists and MakeBucket.
InitMinioClientResult(exists, new, check, make) ==
    IF new # "ok" THEN [err |-> "failed to create MinIO client", bucketExists |-> exists]
    ELSE IF check # "ok" THEN [err |-> "failed to check if bucket exists", bucketExists |-> exists]
    ELSE IF ~exists /\ make # "ok" THEN [err |-> "failed to create bucket", bucketExists |-> FALSE]
    ELSE [err |-> "", bucketExists |-> TRUE]

\* main calls InitMinioClient and exits (logger.Fatal) when it failed
InitMinioClient ==
    /\ pc = "Startup"
    /\ \E new \in {"ok", "error"} :
       \E check \in (IF new = "ok" THEN {"ok", "error"} ELSE {"none"}) :
       \E make \in (IF check = "ok" /\ ~minioInit.bucketExists THEN {"ok", "error"} ELSE {"none"}) :
          LET res == InitMinioClientResult(minioInit.bucketExists, new, check, make) IN
          /\ minioInit' = res
          /\ pc' = IF res.err # "" THEN "Exited" ELSE "Serve"
    /\ UNCHANGED <<cfg, bucket, req, ctx, resp, drawn, authCalls, storeCalls, log,
                   bucket0, uploaded, deleted, probe>>

\* main builds the router and starts the HTTP server
ListenAndServe ==
    /\ pc = "Serve"
    /\ pc' = "Idle"
    /\ UNCHANGED <<cfg, minioInit, bucket, req, ctx, resp, drawn, authCalls, storeCalls, log,
                   bucket0, uploaded, deleted, probe>>

NotStarted == "<not called>"

Init ==
    /\ cfg \in {Startup(d) : d \in Deployments}
    /\ minioInit \in {[err |-> NotStarted, bucketExists |-> e] : e \in BOOLEAN}
    /\ bucket = [n \in Names |-> NoObject]
    /\ pc = "Startup"
    /\ req = NoRequest
    /\ ctx = NoContext
    /\ resp = NoResponse
    /\ drawn = NoDrawn
    /\ authCalls = <<>>
    /\ storeCalls = <<>>
    /\ log = <<>>
    /\ bucket0 = [n \in Names |-> NoObject]
    /\ uploaded = [n \in Names |-> NoUpload]
    /\ deleted = {}
    /\ probe = NoProbe

Next ==
    \/ InitMinioClient
    \/ ListenAndServe
    \/ Receive
    \/ CorrelationIDMiddleware
    \/ LoggerBefore
    \/ CORSMiddleware
    \/ addCorsHeaders
    \/ Authenticate
    \/ UploadFile
    \/ ListFiles
    \/ GetFile
    \/ DeleteFile
    \/ GeneratePresignedURL
    \/ R2ListFiles
    \/ LoggerAfter
    \/ Finish

Spec == Init /\ [][Next]_vars

-----------------------------------------------------------------------------
(* Properties *)

\* the chain has finished: the response is what the writer holds
Responded == pc \in {"LoggerAfter", "Done"}

Message(body) == IF "message" \in DOMAIN body THEN body.message ELSE ""
ErrorOf(body) == IF body.type = "StandardResponse" THEN body.error ELSE ""

\* the number of parts a header splits into at its spaces
NumParts(header) == Cardinality({i \in 1..Len(header) : header[i] = SP}) + 1
FirstPart(header) == IF header[1] = SP THEN "" ELSE header[1]

\* 'Bearer <token>' and a bare '<token>'
IsBearerForm(header) ==
    Len(header) = 3 /\ header[1] \in {"Bearer", "bearer", "BEARER"} /\ header[2] = SP /\ header[3] # SP
IsBareForm(header) == Len(header) = 1 /\ header[1] # SP
TokenOf(header) == header[Len(header)]

VerifiedCalls ==
    {i \in 1..Len(authCalls) :
        /\ authCalls[i].answer = "200"
        /\ authCalls[i].request.body = <<"{\"token\":\"", TokenOf(req.Authorization), "\"}">>}

\* C1: on a route guarded by Authenticate the handler runs only after the
\* auth service answered 200 to a verification call carrying this request's
\* token; in every other outcome the chain is aborted and neither the
\* handler nor a store call runs.
C1_HandlerOnlyAfterVerified ==
    req.guarded =>
        /\ (pc = "Handler" \/ ctx.handlerRan) =>
              /\ IsBearerForm(req.Authorization) \/ IsBareForm(req.Authorization)
              /\ VerifiedCalls # {}
        /\ (Responded /\ \A i \in 1..Len(authCalls) : authCalls[i].answer # "200") =>
              /\ ctx.aborted
              /\ ~ctx.handlerRan
              /\ storeCalls = <<>>
              /\ bucket = bucket0

C1_Witness ==
    /\ pc = "Done" /\ req.guarded /\ ctx.handlerRan
    /\ storeCalls # <<>> /\ VerifiedCalls # {}

\* C2: Authenticate fails closed: a failed call to the auth service is
\* answered 500 'Authentication service unavailable', an answer other than
\* 200 is answered 401 'Invalid or expired token', and the handler does not
\* run in either case.
C2_AuthFailsClosed ==
    (Responded /\ req.guarded /\ authCalls # <<>>) =>
        LET answer == authCalls[1].answer IN
        /\ Len(authCalls) = 1
        /\ answer = "error" =>
              /\ resp.status = 500
              /\ Message(resp.body) = "Authentication service unavailable"
              /\ ctx.aborted /\ ~ctx.handlerRan
        /\ answer \notin {"error", "200"} =>
              /\ resp.status = 401
              /\ Message(resp.body) = "Invalid or expired token"
              /\ ctx.aborted /\ ~ctx.handlerRan

C2_Witness ==
    /\ pc = "Done" /\ req.guarded /\ authCalls # <<>>
    /\ authCalls[1].answer = "error" /\ resp.status = 500

\* a header the middleware must refuse
RefusedForm(header) ==
    \/ header = <<>>
    \/ NumParts(header) >= 3
    \/ NumParts(header) = 2 /\ FirstPart(header) \notin {"Bearer", "bearer", "BEARER"}
    \/ header # <<>> /\ TokenOf(header) = SP

\* C3: no Authorization header, three or more parts, two parts whose first
\* is not 'Bearer' (in any case), or an empty token: the answer is 401, the
\* handler does not run and nothing is sent to the auth service; only
\* 'Bearer <token>' and a bare '<token>' lead to a verification call.
C3_MalformedHeaderRefused ==
    (req.guarded /\ req.Authorization # UnreadHeader) =>
        /\ RefusedForm(req.Authorization) =>
              /\ resp.status = 401
              /\ ctx.aborted /\ ~ctx.handlerRan
              /\ authCalls = <<>>
        /\ authCalls # <<>> =>
              IsBearerForm(req.Authorization) \/ IsBareForm(req.Authorization)

C3_Witness ==
    /\ pc = "Done" /\ req.guarded
    /\ req.Authorization = <<"Basic", SP, "tok1">> /\ resp.status = 401

\* C4: every response carries a non-empty X-Correlation-ID: the request's
\* when that was non-empty, a generated one otherwise; also when a later
\* middleware aborted the chain.
C4_CorrelationIDOnEveryResponse ==
    Responded =>
        /\ resp.headers.XCorrelationID # NoID
        /\ req.XCorrelationID # NoID => resp.headers.XCorrelationID = req.XCorrelationID
        /\ req.XCorrelationID = NoID =>
              /\ resp.headers.XCorrelationID \in UUIDs
              /\ resp.headers.XCorrelationID = drawn.uuid

C4_Witness ==
    /\ pc = "Done" /\ ctx.aborted /\ resp.status = 403
    /\ req.XCorrelationID = NoID /\ resp.headers.XCorrelationID \in UUIDs

\* the handler named has run for the in-flight request
Handled(handler) == Responded /\ ctx.handlerRan /\ req.handler = handler

\* the outcome of the request's store call op, "none" when it was not made
CallOutcome(op) ==
    LET made == {i \in 1..Len(storeCalls) : storeCalls[i].op = op} IN
    IF made = {} THEN "none" ELSE storeCalls[CHOOSE i \in made : TRUE].outcome

StreamedBytes(body) == IF body.type = "stream" THEN body.bytes ELSE <<>>

IsPrefix(s, t) == Len(s) <= Len(t) /\ s = SubSeq(t, 1, Len(s))

DownloadHeadersFor(filename, up) ==
    /\ resp.headers.ContentLength = Len(up.content)
    /\ resp.headers.ContentType = up.contentType
    /\ resp.headers.ContentDisposition = <<"attachment; filename=", filename>>

\* what the auth service answered for the in-flight request
AuthAnswer == IF authCalls = <<>> THEN "none" ELSE authCalls[1].answer

\* how many bytes io.Copy wrote for the in-flight request
Copied ==
    LET reads == {i \in 1..Len(storeCalls) : storeCalls[i].op = "Read"} IN
    IF reads = {} THEN 0 ELSE storeCalls[CHOOSE i \in reads : TRUE].copied

\* what the R2 bucket held and which HeadObject calls failed for the
\* in-flight request
Held ==
    LET lists == {i \in 1..Len(storeCalls) : storeCalls[i].op = "ListObjectsV2"} IN
    IF lists = {} THEN 0 ELSE storeCalls[CHOOSE i \in lists : TRUE].held

HeadFailed ==
    LET heads == {i \in 1..Len(storeCalls) : storeCalls[i].op = "HeadObject"} IN
    IF heads = {} THEN {} ELSE storeCalls[CHOOSE i \in heads : TRUE].failed

\* The writer the handler leaves, from the request, the bucket as the
\* request found it, the configuration, and what the store and the clock
\* answered for this request.
HandlerResponse(r, c, request, store, config) ==
    CASE request.handler = "UploadFile" ->
            UploadResponse(r, c, request.body, config.MinioBucketName, CallOutcome("PutObject"))
      [] request.handler = "ListFiles" ->
            ListFilesResponse(r, c, ListObjects(store, IF CallOutcome("ListObjects") = "ok" THEN -1 ELSE 0))
      [] request.handler = "GetFile" ->
            GetFileResponse(r, c, request.body.filename, CallOutcome("GetObject"),
                            StatObject(store, request.body.filename,
                                       IF CallOutcome("Stat") = "Other" THEN "error" ELSE "ok"),
                            Copied)
      [] request.handler = "DeleteFile" ->
            DeleteFileResponse(r, c, request.body.filename, CallOutcome("RemoveObject"))
      [] request.handler = "GeneratePresignedURL" ->
            PresignResponse(r, request.body, CallOutcome("PresignPutObject"), drawn.now)
      [] request.handler = "R2ListFiles" ->
            R2ListFilesResponse(r, request.body,
                                ListObjectsV2(Held, CallOutcome("ListObjectsV2")), HeadFailed)
      [] OTHER -> r

\* The writer the chain leaves for the in-flight request: a function of the
\* request, the bucket as the request found it, the startup configuration,
\* and the answers of the auth service, the store, uuid.New() and the clock.
ChainResponse(request, store, config) ==
    LET correlationID == CorrelationIDFor(request.XCorrelationID, drawn.uuid)
        c == [NoContext EXCEPT !.CorrelationID = correlationID]
        r0 == [NoResponse EXCEPT !.headers.XCorrelationID = correlationID]
        cors == CORSResult(r0, config.AppEnv, request.method, request.Origin)
        routeCors == AddCorsHeadersResult(cors.resp, request.method)
        auth == IF request.guarded
                THEN AuthenticateResult(routeCors.resp, request.Authorization,
                                        config.authBaseURL, AuthAnswer)
                ELSE [resp |-> routeCors.resp, aborted |-> FALSE, calls |-> <<>>]
    IN IF cors.aborted THEN cors.resp
       ELSE IF routeCors.aborted THEN routeCors.resp
       ELSE IF auth.aborted THEN auth.resp
       ELSE HandlerResponse(auth.resp, c, request, store, config)

C6_RoundTripAlways ==
    (Handled("GetFile") /\ uploaded[req.body.filename].some) =>
        LET up == uploaded[req.body.filename] IN
        /\ resp.status = 200
        /\ resp.body.type = "stream"
        /\ StreamedBytes(resp.body) = up.content
        /\ DownloadHeadersFor(req.body.filename, up)

\* C6 amended: after such an upload GetFile(f) never answers 404; when
\* GetObject and Stat succeed it answers 200 with the three headers and
\* streams b, or a prefix of b when reading the object fails midway; when
\* GetObject or Stat fails it answers 500.
C6_RoundTripUnlessStoreFails ==
    (Handled("GetFile") /\ uploaded[req.body.filename].some) =>
        LET up == uploaded[req.body.filename] IN
        /\ resp.status # 404
        /\ (CallOutcome("GetObject") = "ok" /\ CallOutcome("Stat") = "ok") =>
              /\ resp.status = 200
              /\ resp.body.type = "stream"
              /\ DownloadHeadersFor(req.body.filename, up)
              /\ IsPrefix(StreamedBytes(resp.body), up.content)
              /\ CallOutcome("Read") = "ok" => StreamedBytes(resp.body) = up.content
        /\ (CallOutcome("GetObject") # "ok" \/ CallOutcome("Stat") # "ok") =>
              resp.status = 500

C6_Witness ==
    /\ pc = "Done" /\ Handled("GetFile")
    /\ uploaded[req.body.filename].some
    /\ resp.status = 200
    /\ StreamedBytes(resp.body) = <<2, 3>>
    /\ resp.headers.ContentType = "text/csv"

\* C7: GetFile of a name that is not in the bucket answers 404 'File not
\* found', in particular after a delete of it answered 200 with no later
\* upload; any other failure of GetObject or Stat answers 500.
C7_MissingFileIs404 ==
    Handled("GetFile") =>
        LET f == req.body.filename
            absent == ~bucket0[f].present
            otherFailure == CallOutcome("GetObject") = "error" \/ CallOutcome("Stat") = "Other"
        IN
        /\ f \in deleted => absent
        /\ (absent /\ ~otherFailure) =>
              /\ resp.status = 404
              /\ ErrorOf(resp.body) = "File not found"
        /\ otherFailure => resp.status = 500
        /\ resp.status = 404 => absent
        /\ bucket = bucket0

C7_Witness ==
    /\ pc = "Done" /\ Handled("GetFile")
    /\ req.body.filename \in deleted
    /\ resp.status = 404

Items(body) == IF body.type = "StandardResponse" THEN body.data.items ELSE <<>>

\* C8: ListFiles answers 200 with exactly one entry (name, size,
\* lastModified, contentType) per object of the configured bucket, listed
\* recursively; an error at any point of the listing gives 500 'Failed to
\* list files' and no partial list.
C8_ListFilesExact ==
    Handled("ListFiles") =>
        LET present == {n \in Names : bucket0[n].present}
            items == Items(resp.body)
        IN
        /\ Len(storeCalls) = 1
        /\ storeCalls[1].op = "ListObjects"
        /\ storeCalls[1].bucket = cfg.MinioBucketName
        /\ storeCalls[1].recursive
        /\ storeCalls[1].outcome = "ok" =>
              /\ resp.status = 200
              /\ Len(items) = Cardinality(present)
              /\ \A n \in present :
                    \E i \in 1..Len(items) :
                        /\ items[i].name = n
                        /\ items[i].size = Len(bucket0[n].content)
                        /\ items[i].lastModified = bucket0[n].lastModified
                        /\ items[i].contentType = bucket0[n].contentType
              /\ \A i, j \in 1..Len(items) : items[i].name = items[j].name => i = j
        /\ storeCalls[1].outcome # "ok" =>
              /\ resp.status = 500
              /\ ErrorOf(resp.body) = "Failed to list files"
              /\ items = <<>>

C8_Witness ==
    /\ pc = "Done" /\ Handled("ListFiles")
    /\ resp.status = 200 /\ Len(Items(resp.body)) = 2

\* C9: without a 'file' part UploadFile answers 400 'Failed to get file',
\* makes no PutObject call and leaves the bucket unchanged; a failed
\* PutObject gives 500 'Failed to upload file'; 200 is answered only after
\* PutObject succeeded.
C9_UploadErrors ==
    Handled("UploadFile") =>
        /\ ~req.body.hasFile =>
              /\ resp.status = 400
              /\ ErrorOf(resp.body) = "Failed to get file"
              /\ storeCalls = <<>>
              /\ bucket = bucket0
        /\ CallOutcome("PutObject") = "error" =>
              /\ resp.status = 500
              /\ ErrorOf(resp.body) = "Failed to upload file"
        /\ resp.status = 200 =>
              /\ CallOutcome("PutObject") = "ok"
              /\ bucket[req.body.filename].present
              /\ bucket[req.body.filename].content = req.body.content

C9_Witness ==
    /\ pc = "Done" /\ Handled("UploadFile")
    /\ ~req.body.hasFile /\ resp.status = 400
    /\ \E n \in Names : bucket[n].present

\* the lifetime C10 states for a request's expires_in
StatedLifetime(expiresIn) == IF expiresIn > 0 THEN expiresIn ELSE 3600

\* C10: GeneratePresignedURL uses lifetime E = expires_in when that is
\* positive and 3600 seconds otherwise; the URL is presigned for a PUT with
\* lifetime E > 0, the response has method 'PUT' and expires_at = server
\* time + E, and no int64 computation overflows for any int32 expires_in.
C10_PresignLifetime ==
    (Handled("GeneratePresignedURL") /\ resp.status = 200) =>
        LET E == StatedLifetime(req.body.expires_in)
            body == resp.body
        IN
        /\ body.type = "PresignedURLResponse"
        /\ E > 0
        /\ body.url.method = "PUT"
        /\ ~body.url.overflow
        /\ body.url.XAmzExpires = FromInt32(E)
        /\ LexLE(<<0, 0, 1>>, body.url.XAmzExpires)
        /\ body.method = "PUT"
        /\ ~body.expires_at.overflow
        /\ body.expires_at = AddL(drawn.now, FromInt32(E))
        /\ drawn.now \in Nows

C10_Witness ==
    /\ pc = "Done" /\ Handled("GeneratePresignedURL") /\ resp.status = 200
    /\ req.body.expires_in = Int32Max
    /\ resp.body.expires_at.value = <<0, 4, 356472447>>

\* C11: GeneratePresignedURL with a body that is not valid JSON or that
\* lacks bucket_name or object_key answers 400 and makes no presign call; a
\* failed presign answers 500; 200 with a URL is answered only after the
\* presign call succeeded.
C11_PresignErrors ==
    Handled("GeneratePresignedURL") =>
        LET body == req.body IN
        /\ (~body.valid \/ body.bucket_name = "" \/ body.object_key = "") =>
              /\ resp.status = 400
              /\ storeCalls = <<>>
        /\ CallOutcome("PresignPutObject") = "error" => resp.status = 500
        /\ resp.status = 200 =>
              /\ CallOutcome("PresignPutObject") = "ok"
              /\ resp.body.type = "PresignedURLResponse"
              /\ resp.body.url.bucket = body.bucket_name
              /\ resp.body.url.key = body.object_key
        /\ resp.status \in {200, 400, 500}

C11_Witness ==
    /\ pc = "Done" /\ Handled("GeneratePresignedURL")
    /\ req.body.valid /\ req.body.bucket_name = ""
    /\ resp.status = 400 /\ storeCalls = <<>>

\* C12: R2 ListFiles lists all files of the bucket: the 200 response holds
\* one FileInfo entry for every object the bucket holds, whatever their
\* number.
C12_ListsEveryObject ==
    (Handled("R2ListFiles") /\ resp.status = 200) =>
        /\ resp.body.type = "ListFilesResponse"
        /\ resp.body.files.first = 1
        /\ resp.body.files.last = Held

\* the deployment is a production one: APP_ENV is neither 'development' nor 'dev'
InProduction == cfg.AppEnv \notin {"development", "dev"}

\* C13: in production a request whose Origin header is not in the
\* allow-list, a request without Origin header included, is answered 403
\* 'Origin not allowed', and no route handler, no auth call and no store
\* call is executed for it.
C13_ProductionOriginRefused ==
    (InProduction /\ req.Origin \notin {Unread, "https://drive-two.junistudio.org"}) =>
        /\ Responded
        /\ resp.status = 403
        /\ resp.body = [type |-> "H", error |-> "Origin not allowed"]
        /\ ctx.aborted /\ ~ctx.handlerRan
        /\ storeCalls = <<>> /\ authCalls = <<>>
        /\ bucket = bucket0

C13_Witness ==
    /\ pc = "Done" /\ InProduction /\ req.Origin = ""
    /\ req.handler = "DeleteFile" /\ resp.status = 403
    /\ \E n \in Names : bucket[n].present

\* the request passed the origin check of the CORS middleware
PassedOriginCheck ==
    \/ ~InProduction /\ pc \notin {"Idle", "CorrelationID", "LoggerBefore", "CORS"}
    \/ InProduction /\ req.Origin = "https://drive-two.junistudio.org"

\* C14: an OPTIONS request that passes the origin check (any origin in
\* development, an allow-listed origin in production) is answered 204 with
\* Access-Control-Allow-Origin, -Methods, -Headers and -Credentials set, and
\* no later middleware and no route handler runs for it.
C14_PreflightAnswered ==
    (req.method = "OPTIONS" /\ PassedOriginCheck) =>
        /\ Responded
        /\ resp.status = 204
        /\ resp.body = NoBody
        /\ resp.headers.AccessControlAllowOrigin =
              (IF InProduction THEN "https://drive-two.junistudio.org" ELSE "*")
        /\ resp.headers.AccessControlAllowMethods # ""
        /\ resp.headers.AccessControlAllowHeaders # ""
        /\ resp.headers.AccessControlAllowCredentials = "true"
        /\ ctx.aborted /\ ~ctx.handlerRan
        /\ storeCalls = <<>> /\ authCalls = <<>>

C14_Witness ==
    /\ pc = "Done" /\ req.method = "OPTIONS" /\ InProduction
    /\ req.Origin = "https://drive-two.junistudio.org"
    /\ resp.status = 204 /\ resp.headers.AccessControlAllowCredentials = "true"

\* the HTTP server has been started
ServerStarted == pc \notin {"Startup", "Serve", "Exited"}

\* C15: InitMinioClient returns a client only if the configured bucket
\* exists at that point (found, or created by MakeBucket); when client
\* creation, BucketExists or MakeBucket fails it returns an error, main
\* exits and the HTTP server never starts: no request is served before the
\* bucket exists.
C15_BucketExistsBeforeServing ==
    /\ (pc = "Serve" \/ ServerStarted) => (minioInit.err = "" /\ minioInit.bucketExists)
    /\ minioInit.err \notin {"", NotStarted} =>
          /\ pc = "Exited"
          /\ req = NoRequest /\ storeCalls = <<>> /\ log = <<>>
    /\ pc = "Exited" => minioInit.err \notin {"", NotStarted}
    /\ pc = "Startup" <=> minioInit.err = NotStarted

C15_Witness ==
    /\ pc = "Done" /\ ctx.handlerRan /\ storeCalls # <<>>
    /\ minioInit.err = "" /\ minioInit.bucketExists

\* a request is in the chain and LoggerMiddleware's c.Next() has not returned
InChain == pc \in {"CorrelationID", "LoggerBefore", "CORS", "addCorsHeaders",
                   "Authenticate", "Handler", "LoggerAfter"}

\* the steps of the handler chain for the request in flight
ChainStep ==
    \/ CorrelationIDMiddleware \/ LoggerBefore \/ CORSMiddleware \/ addCorsHeaders
    \/ Authenticate \/ UploadFile \/ ListFiles \/ GetFile \/ DeleteFile
    \/ GeneratePresignedURL \/ R2ListFiles \/ LoggerAfter

\* every handler of the chain returns: the store and auth calls carry
\* timeouts, and gin runs the chain to its end
FairSpec == Spec /\ WF_vars(ChainStep)

\* the record LoggerMiddleware emits for the answered request
LoggedOnce ==
    pc = "Done" =>
        /\ Len(log) = 1
        /\ log[1].correlation_id = resp.headers.XCorrelationID
        /\ req.XCorrelationID # NoID => log[1].correlation_id = req.XCorrelationID
        /\ log[1].status = resp.status
        /\ log[1].requestMethod = req.method
        /\ log[1].severity = (IF resp.status >= 500 THEN "ERROR"
                              ELSE IF resp.status >= 400 THEN "WARNING"
                              ELSE "INFO")

\* C16: for every request LoggerMiddleware emits exactly one record, only
\* after the rest of the chain has finished, carrying the request's
\* correlation ID and a severity computed from the final status: ERROR from
\* 500 on, WARNING from 400 to 499, INFO otherwise.
C16_OneLogRecordPerRequest ==
    /\ [](InChain => log = <<>>)
    /\ []LoggedOnce
    /\ (pc = "CorrelationID") ~> (pc = "Done")

C16_Witness ==
    /\ pc = "Done" /\ Len(log) = 1
    /\ log[1].severity = "WARNING" /\ resp.status = 404
    /\ log[1].correlation_id = <<"uuid", 2>>

=============================================================================
